---------------------------- MODULE Spec2Model ----------------------------
(***************************************************************************)
(* The Azure AD authorization-code flow of reflexions.auth.azure_auth:     *)
(* the module-level configuration (config.py), the per-session SsoState    *)
(* with its three event handlers (core.py) and the token cache the         *)
(* sessions share.  Python dicts are functions from string keys, Python    *)
(* None is the string "None", and text is built as the f-strings build it. *)
(***************************************************************************)
EXTENDS Integers, Sequences, FiniteSets, TLC

VARIABLES cfg, sess, token_cache, flows_issued, last

vars == <<cfg, sess, token_cache, flows_issued, last>>

(***************************************************************************)
(* Bounds of the model.                                                    *)
(***************************************************************************)
\* how many authorization flows the provider client issues in one run
MaxFlows == 2

\* the connections, one SsoState each
Sessions == {"s1"}

(***************************************************************************)
(* Python values.                                                          *)
(***************************************************************************)
None == "None"

EmptyDict == [k \in {} |-> None]

\* dict.get(key, default)
Get(d, k, dflt) == IF k \in DOMAIN d THEN d[k] ELSE dflt

\* bool(x) of a dict: non-empty
BoolDict(d) == DOMAIN d /= {}

\* bool(x) of a str or of None-or-str: non-empty and not None
BoolStr(s) == s /= "" /\ s /= None

\* str.endswith
EndsWith(s, suffix) ==
    /\ Len(s) >= Len(suffix)
    /\ SubSeq(s, Len(s) - Len(suffix) + 1, Len(s)) = suffix

\* sub occurs in s at position i
OccursAt(s, sub, i) ==
    /\ i + Len(sub) - 1 <= Len(s)
    /\ SubSeq(s, i, i + Len(sub) - 1) = sub

\* "sub in s" of two strings
Contains(s, sub) == \E i \in 1..(Len(s) + 1) : OccursAt(s, sub, i)

\* str.replace(old, new): every non-overlapping occurrence, left to right
RECURSIVE ReplaceFrom(_, _, _, _)
ReplaceFrom(s, old, new, i) ==
    IF i > Len(s) THEN ""
    ELSE IF OccursAt(s, old, i)
         THEN new \o ReplaceFrom(s, old, new, i + Len(old))
         ELSE SubSeq(s, i, i) \o ReplaceFrom(s, old, new, i + 1)

Replace(s, old, new) == ReplaceFrom(s, old, new, 1)

\* str.strip(), of text whose only whitespace is the space
RECURSIVE Strip(_)
Strip(s) ==
    IF Len(s) = 0 THEN s
    ELSE IF SubSeq(s, 1, 1) = " " THEN Strip(SubSeq(s, 2, Len(s)))
    ELSE IF SubSeq(s, Len(s), Len(s)) = " " THEN Strip(SubSeq(s, 1, Len(s) - 1))
    ELSE s

\* str.split(sep) from position i on, part being what was read since the
\* last separator
RECURSIVE SplitFrom(_, _, _, _)
SplitFrom(s, sep, i, part) ==
    IF i > Len(s) THEN <<part>>
    ELSE IF OccursAt(s, sep, i)
         THEN <<part>> \o SplitFrom(s, sep, i + Len(sep), "")
         ELSE SplitFrom(s, sep, i + 1, part \o SubSeq(s, i, i))

Split(s, sep) == SplitFrom(s, sep, 1, "")

(***************************************************************************)
(* config.py: the configuration record and its module-level instance.      *)
(***************************************************************************)
DEFAULT_LOGOUT_ROUTE == "/logout"
DEFAULT_CALLBACK_ROUTE == "/callback"
DEFAULT_LOGIN_REDIRECT == "/"

ConfigFields ==
    {"client_id", "client_secret", "tenant_id", "scopes", "login_redirect_url",
     "post_logout_redirect_uri", "logout_route", "callback_route"}

\* os.environ at import time: nothing set, or the essentials and the scopes
Environments ==
    { EmptyDict,
      [AZURE_CLIENT_ID |-> "abc", AZURE_CLIENT_SECRET |-> "xyz",
       AZURE_TENANT_ID |-> "contoso", AZURE_AUTH_SCOPES |-> "User.Read, ,Mail.Read"] }

\* _parse_scopes: the stripped, non-empty parts between the commas
_parse_scopes(scopes_str) ==
    IF ~BoolStr(scopes_str) THEN <<>>
    ELSE LET parts == Split(scopes_str, ",")
             stripped == [i \in 1..Len(parts) |-> Strip(parts[i])]
         IN  SelectSeq(stripped, LAMBDA scope : scope /= "")

\* AzureAuthConfig(): every field from its default_factory
AzureAuthConfig(env) ==
    [ client_id                |-> Get(env, "AZURE_CLIENT_ID", ""),
      client_secret            |-> Get(env, "AZURE_CLIENT_SECRET", ""),
      tenant_id                |-> Get(env, "AZURE_TENANT_ID", ""),
      scopes                   |-> _parse_scopes(Get(env, "AZURE_AUTH_SCOPES", None)),
      login_redirect_url       |-> Get(env, "AZURE_AUTH_LOGIN_REDIRECT_URL",
                                       DEFAULT_LOGIN_REDIRECT),
      post_logout_redirect_uri |-> Get(env, "AZURE_AUTH_POST_LOGOUT_REDIRECT_URI", None),
      logout_route             |-> Get(env, "AZURE_AUTH_LOGOUT_ROUTE", DEFAULT_LOGOUT_ROUTE),
      callback_route           |-> Get(env, "AZURE_AUTH_CALLBACK_ROUTE",
                                       DEFAULT_CALLBACK_ROUTE) ]

\* is_configured as it would be if it left the tenant id out
is_configured_without_tenant(c) ==
    BoolStr(c.client_id) /\ BoolStr(c.client_secret)

\* AzureAuthConfig.is_configured
is_configured(c) ==
    BoolStr(c.client_id) /\ BoolStr(c.client_secret) /\ BoolStr(c.tenant_id)

\* AzureAuthConfig.authority, for a non-empty tenant id (the empty one raises)
authority(c) == "https://login.microsoftonline.com/" \o c.tenant_id

\* configure_azure_auth as it would be if it tested the keywords for truth
\* and so passed over an empty value
configure_azure_auth_truthy(c, kw) ==
    [ f \in ConfigFields |->
        IF f \in DOMAIN kw /\ Len(kw[f]) > 0 THEN kw[f] ELSE c[f] ]

\* configure_azure_auth(**kw): kw maps the keywords passed with a value that
\* is not None to that value (a keyword passed as None is one not passed)
configure_azure_auth(c, kw) ==
    [ f \in ConfigFields |-> IF f \in DOMAIN kw THEN kw[f] ELSE c[f] ]

\* the keyword sets the application passes to configure_azure_auth
Overrides ==
    { [client_id |-> "abc", client_secret |-> "xyz", tenant_id |-> "contoso"],
      [client_id |-> ""],
      [post_logout_redirect_uri |-> "https://app.example/bye"] }


\* what a call hands back: a value, or the exception it raises
Return(value) == [kind |-> "return", value |-> value]
Raise(exc) == [kind |-> "raise", text |-> exc]

\* the property as it would be if it did not look at the tenant id
read_authority_unchecked(c) == Return(authority(c))

\* AzureAuthConfig.authority as the caller sees it: ValueError when the
\* tenant id is empty
read_authority(c) ==
    IF ~BoolStr(c.tenant_id) THEN Raise("ValueError") ELSE Return(authority(c))

\* get_config() as it would be if it handed out any configuration
get_config_never_raises(c) == FALSE

\* get_config(): the configuration, or RuntimeError when an essential is missing
get_config_raises(c) == ~is_configured(c)

\* get_config() as the caller sees it
get_config(c) ==
    IF get_config_raises(c) THEN Raise("RuntimeError") ELSE Return(c)

(***************************************************************************)
(* The identity-provider client (msal.ConfidentialClientApplication) as    *)
(* core.py uses it.                                                        *)
(***************************************************************************)
\* _sso_app_instance = None
NoApp == EmptyDict

\* the principals the provider can sign in
Users == {"ada", "bob"}

\* the id-token claims the provider issues for a principal
ClaimsOf(u) ==
    IF u = "ada"
    THEN [name |-> "Ada", preferred_username |-> "ada@app.example",
          roles |-> <<"admin">>]
    ELSE [preferred_username |-> "bob@app.example"]

\* msal.ConfidentialClientApplication(client_id, client_credential, authority,
\* token_cache=_token_cache)
ConfidentialClientApplication(c) ==
    [ client_id         |-> c.client_id,
      client_credential |-> c.client_secret,
      authority         |-> authority(c) ]

\* the state token of the k-th flow the client issues (random in msal, so
\* never one issued before)
StateToken(k) == "st" \o ToString(k)

\* sso_app.initiate_auth_code_flow(scopes, redirect_uri): the flow dict
initiate_auth_code_flow(app, scopes, redirect_uri, k) ==
    [ state        |-> StateToken(k),
      redirect_uri |-> redirect_uri,
      scope        |-> scopes,
      auth_uri     |-> app.authority \o "/oauth2/v2.0/authorize?client_id="
                       \o app.client_id \o "&redirect_uri=" \o redirect_uri
                       \o "&state=" \o StateToken(k) ]

\* the token responses of a successful exchange
TokenResults ==
    { [access_token |-> "AT", id_token_claims |-> ClaimsOf(u)] : u \in Users }
    \cup { [access_token |-> "AT"],
           [access_token |-> "AT", id_token_claims |-> EmptyDict] }

\* the error payloads of an exchange the provider rejects
ErrorResults ==
    { [error |-> "invalid_grant", error_description |-> "Code expired"],
      [error |-> "invalid_grant"] }

\* what the provider does with an exchange request that reaches it: it
\* answers with tokens or with an error payload, or the request fails
ProviderAnswers ==
    { [kind |-> "result", why |-> "tokens", result |-> r] : r \in TokenResults }
    \cup { [kind |-> "result", why |-> "provider_rejected", result |-> r] :
             r \in ErrorResults }
    \cup { [kind |-> "Exception", why |-> "transport", result |-> EmptyDict] }

\* the elements of a list
Elements(seq) == { seq[i] : i \in 1..Len(seq) }

\* sso_app.acquire_token_by_auth_code_flow(auth_code_flow, auth_response,
\* scopes).  A state that differs from the flow's own, scopes the flow was
\* not started with, or a response without a code, is a ValueError raised
\* before any request is sent; a flow that lacks what login initiation put
\* into it cannot be exchanged; otherwise the request is sent and the
\* provider's answer is the outcome.
acquire_token_by_auth_code_flow(auth_code_flow, auth_response, scopes, answer) ==
    IF Get(auth_code_flow, "state", None) /= auth_response.state
    THEN [kind |-> "ValueError", why |-> "state_mismatch", result |-> EmptyDict]
    ELSE IF ~(Elements(scopes) \subseteq Elements(Get(auth_code_flow, "scope", <<>>)))
    THEN [kind |-> "ValueError", why |-> "scope_mismatch", result |-> EmptyDict]
    ELSE IF ~BoolStr(auth_response.code)
    THEN [kind |-> "ValueError", why |-> "no_code", result |-> EmptyDict]
    ELSE IF auth_code_flow = EmptyDict
    THEN [kind |-> "Exception", why |-> "no_flow", result |-> EmptyDict]
    ELSE answer

\* the answers the provider can give to the exchange of a callback: it is
\* asked only when the client sends the request
AnswersFor(auth_code_flow, query_params, scopes) ==
    LET probe == [kind |-> "Exception", why |-> "transport", result |-> EmptyDict]
        sent == acquire_token_by_auth_code_flow(
                    auth_code_flow,
                    [code |-> Get(query_params, "code", None),
                     state |-> Get(query_params, "state", None)],
                    scopes, probe) = probe
    IN  IF sent THEN ProviderAnswers ELSE {probe}

\* the account a token response puts into the shared token cache
AccountOf(result) ==
    Get(Get(result, "id_token_claims", EmptyDict), "preferred_username", None)

\* _token_cache after a token response: the response's account is added
CacheAdd(cache, result) ==
    IF "error" \in DOMAIN result \/ AccountOf(result) = None THEN cache
    ELSE IF \E i \in 1..Len(cache) : cache[i] = AccountOf(result) THEN cache
    ELSE Append(cache, AccountOf(result))

\* sso_app.remove_account(account) when it succeeds
CacheRemove(cache, account) ==
    SelectSeq(cache, LAMBDA a : a /= account)

(***************************************************************************)
(* core.py: SsoState, one per session.  Its backend vars are _token_claims,*)
(* _access_token, _flow and _sso_app_instance; is_authenticated,            *)
(* token_claims and access_token are computed vars with cache=True, so the *)
(* state also holds their cached values and whether an assignment has made *)
(* the cached values stale; user_name, user_email and user_roles are       *)
(* computed vars without a cache.                                          *)
(***************************************************************************)
\* a fresh SsoState: the class-level defaults
NewSsoState ==
    [ _token_claims     |-> EmptyDict,
      _access_token     |-> "",
      _flow             |-> EmptyDict,
      _sso_app_instance |-> NoApp,
      is_authenticated  |-> FALSE,
      token_claims      |-> EmptyDict,
      access_token      |-> "",
      dirty             |-> FALSE ]

\* is_authenticated as it would be if it looked at the access token
is_authenticated_by_token(st) == st._access_token /= ""

\* the body of the computed var is_authenticated
is_authenticated(st) == BoolDict(st._token_claims)

\* reading SsoState.is_authenticated: the cached value unless it is stale
read_is_authenticated(st) ==
    IF st.dirty THEN is_authenticated(st) ELSE st.is_authenticated

\* the bodies of the computed vars token_claims and access_token, and
\* reading them
token_claims(st) == st._token_claims
read_token_claims(st) == IF st.dirty THEN token_claims(st) ELSE st.token_claims
access_token(st) == st._access_token
read_access_token(st) == IF st.dirty THEN access_token(st) ELSE st.access_token

\* the computed vars user_name, user_email and user_roles
user_name(st) == Get(st._token_claims, "name", "")
user_email(st) == Get(st._token_claims, "preferred_username", "")
user_roles(st) == Get(st._token_claims, "roles", <<>>)

\* the assignment as it would be if it left the cached values for fresh
SetAttrKeepCache(st, name, value) == [st EXCEPT ![name] = value]

\* self.<backend var> = value: stored, and the cached computed vars go stale
SetAttr(st, name, value) == [st EXCEPT ![name] = value, !.dirty = TRUE]

\* after a handler has returned the state's delta is computed, which
\* recomputes the stale computed vars
Flush(st) ==
    [st EXCEPT !.is_authenticated = read_is_authenticated(st),
               !.token_claims = read_token_claims(st),
               !.access_token = read_access_token(st),
               !.dirty = FALSE]

\* what a handler hands back: None, rx.redirect(url), rx.toast(msg,
\* status="error"), or an exception that leaves the handler
RetNone == [kind |-> "None", text |-> ""]
Redirect(url) == [kind |-> "redirect", text |-> url]
Toast(msg) == [kind |-> "toast", text |-> msg]

\* no exchange was made
NoExchange == [kind |-> "none", why |-> "none", result |-> EmptyDict]

\* _get_sso_app as it would be if it built the client on every use
_get_sso_app_rebuilt(st, c) ==
    SetAttr(st, "_sso_app_instance", ConfidentialClientApplication(c))

\* SsoState._get_sso_app: the state with the client built if it was not
\* (get_config() inside it has succeeded whenever a handler gets here)
_get_sso_app(st, c) ==
    IF st._sso_app_instance = NoApp
    THEN SetAttr(st, "_sso_app_instance", ConfidentialClientApplication(c))
    ELSE st

\* the client calls _get_sso_app makes
AppCalls(st) ==
    IF st._sso_app_instance = NoApp THEN <<"ConfidentialClientApplication">>
    ELSE <<>>

\* the pages a handler can run on: router.page as the request gives it; a
\* request_url of None is the router that does not carry it (AttributeError)
Pages ==
    { [request_url |-> "https://app.example/dash", path |-> "/dash",
       scheme |-> "https", host |-> "app.example"],
      [request_url |-> None, path |-> "/dash",
       scheme |-> "http", host |-> "localhost:3000"] }

\* no page: the handler did not look at router.page
NoPage == EmptyDict

\* the base URL of the request, lines 99-107
BaseUrl(page) ==
    IF page.request_url = None
    THEN page.scheme \o "://" \o page.host
    ELSE LET base_url == Replace(page.request_url, page.path, "")
         IN  IF EndsWith(base_url, "/")
             THEN SubSeq(base_url, 1, Len(base_url) - 1)
             ELSE base_url

\* the assignment as it would be if a pending flow were kept
store_flow_if_none(st, flow_details) ==
    IF st._flow = EmptyDict THEN SetAttr(st, "_flow", flow_details) ELSE st

\* line 114: the flow the client built becomes the session's pending flow
store_flow(st, flow_details) == SetAttr(st, "_flow", flow_details)

\* the redirect as it would be if it went to the flow's redirect URI
sso_redirect_to_callback(st) == Redirect(st._flow["redirect_uri"])

\* line 115: the redirect goes to the authorization URL of the stored flow
sso_redirect(st) == Redirect(st._flow["auth_uri"])

\* SsoState._redirect_to_sso; k numbers the flow the client issues
_redirect_to_sso(st, c, page, k) ==
    IF get_config_raises(c)
    THEN [st |-> st, ret |-> Raise("RuntimeError"), calls |-> <<>>,
          flow_details |-> EmptyDict]
    ELSE LET st1 == _get_sso_app(st, c)
             sso_app == st1._sso_app_instance
             callback_uri == BaseUrl(page) \o c.callback_route
             flow_details ==
                 initiate_auth_code_flow(sso_app, c.scopes, callback_uri, k)
             st2 == store_flow(st1, flow_details)
         IN  [st |-> Flush(st2),
              ret |-> sso_redirect(st2),
              calls |-> AppCalls(st) \o <<"initiate_auth_code_flow">>,
              flow_details |-> flow_details]

\* require_auth as it would be without its check of is_authenticated
require_auth_unguarded(st, c, page, k) == _redirect_to_sso(st, c, page, k)

\* SsoState.require_auth
require_auth(st, c, page, k) ==
    IF ~read_is_authenticated(st)
    THEN _redirect_to_sso(st, c, page, k)
    ELSE [st |-> Flush(st), ret |-> RetNone, calls |-> <<>>,
          flow_details |-> EmptyDict]

\* the query parameters of a request to the callback page
Queries ==
    { q \in UNION { [K -> {"c1", "access_denied", "User cancelled"}
                          \cup { StateToken(k) : k \in 1..MaxFlows }] :
                    K \in SUBSET {"code", "state", "error", "error_description"} } :
        /\ "code" \in DOMAIN q => q["code"] = "c1"
        /\ "state" \in DOMAIN q => q["state"] \in { StateToken(k) : k \in 1..MaxFlows }
        /\ "error" \in DOMAIN q => q["error"] = "access_denied"
        /\ "error_description" \in DOMAIN q =>
               /\ q["error_description"] = "User cancelled"
               /\ "error" \in DOMAIN q }

\* the check as it would be if it looked for the description of the error
has_query_error_description(query_params) ==
    "error_description" \in DOMAIN query_params

\* line 127: the provider reported an error in the query parameters
has_query_error(query_params) == "error" \in DOMAIN query_params

\* the notification as it would be if it carried the error code
query_error_toast_code(query_params) ==
    Toast("Login failed: " \o Get(query_params, "error", "Unknown error."))

\* lines 128-134: the notification for a provider-reported error
query_error_toast(query_params) ==
    LET error_description ==
            Get(query_params, "error_description", "Unknown error.")
    IN  Toast("Login failed: " \o error_description)

\* lines 137-142: the authorization response handed to the client
AuthResponse(query_params) ==
    [ code          |-> Get(query_params, "code", None),
      client_info   |-> Get(query_params, "client_info", None),
      state         |-> Get(query_params, "state", None),
      session_state |-> Get(query_params, "session_state", None) ]

\* lines 165-172: the notification for an error payload of the exchange
result_error_toast(result) ==
    LET error_description ==
            Get(result, "error_description", "Token acquisition failed.")
    IN  Toast("Login failed: " \o error_description)

\* the tokens stored as they would be if the flow were not cleared
store_tokens_keep_flow(st, result) ==
    LET st2 == SetAttr(st, "_access_token", Get(result, "access_token", ""))
    IN  SetAttr(st2, "_token_claims", Get(result, "id_token_claims", EmptyDict))

\* lines 175-177: the tokens are stored and the flow is cleared
store_tokens(st, result) ==
    LET st2 == SetAttr(st, "_access_token", Get(result, "access_token", ""))
        st3 == SetAttr(st2, "_token_claims",
                       Get(result, "id_token_claims", EmptyDict))
    IN  SetAttr(st3, "_flow", EmptyDict)

\* SsoState.handle_callback; answer is what the provider does if asked, cache
\* the shared _token_cache
handle_callback(st, c, query_params, answer, cache) ==
    IF get_config_raises(c)
    THEN [st |-> st, ret |-> Raise("RuntimeError"), calls |-> <<>>,
          exch |-> NoExchange, cache |-> cache]
    ELSE
    LET st1 == _get_sso_app(st, c)
        sso_app == st1._sso_app_instance
    IN
    IF has_query_error(query_params)
    THEN [st |-> Flush(st1), ret |-> query_error_toast(query_params),
          calls |-> AppCalls(st), exch |-> NoExchange, cache |-> cache]
    ELSE
    LET auth_response == AuthResponse(query_params)
        exch == acquire_token_by_auth_code_flow(st1._flow, auth_response,
                                                c.scopes, answer)
        result == exch.result
        calls == AppCalls(st) \o <<"acquire_token_by_auth_code_flow">>
    IN
    IF exch.kind = "ValueError"
    THEN [st |-> Flush(st1),
          ret |-> Toast("Login callback error. Please try logging in again."),
          calls |-> calls, exch |-> exch, cache |-> cache]
    ELSE IF exch.kind = "Exception"
    THEN [st |-> st1, ret |-> Raise("RuntimeError"),
          calls |-> calls, exch |-> exch, cache |-> cache]
    ELSE IF "error" \in DOMAIN result
    THEN [st |-> Flush(st1), ret |-> result_error_toast(result),
          calls |-> calls, exch |-> exch, cache |-> cache]
    ELSE [st |-> Flush(store_tokens(st1, result)),
          ret |-> Redirect(c.login_redirect_url),
          calls |-> calls, exch |-> exch, cache |-> CacheAdd(cache, result)]

\* the clearing as it would be if it left the pending flow
clear_local_state_keep_flow(st) ==
    LET st1 == SetAttr(st, "_token_claims", EmptyDict)
    IN  SetAttr(st1, "_access_token", "")

\* the local state cleared as it would be if the claims were left behind
clear_local_state_keep_claims(st) ==
    LET st2 == SetAttr(st, "_access_token", "")
    IN  SetAttr(st2, "_flow", EmptyDict)

\* lines 190-192: the local state is cleared
clear_local_state(st) ==
    LET st1 == SetAttr(st, "_token_claims", EmptyDict)
        st2 == SetAttr(st1, "_access_token", "")
    IN  SetAttr(st2, "_flow", EmptyDict)

\* the logout URL as it would be if the query were appended in any case
LogoutUrlWithQuery(c) ==
    authority(c) \o "/oauth2/v2.0/logout" \o "?post_logout_redirect_uri="
                 \o c.post_logout_redirect_uri

\* lines 200-204: the logout URL
LogoutUrl(c) ==
    LET logout_url == authority(c) \o "/oauth2/v2.0/logout"
    IN  IF BoolStr(c.post_logout_redirect_uri)
        THEN logout_url \o "?post_logout_redirect_uri="
                        \o c.post_logout_redirect_uri
        ELSE logout_url

\* perform_logout, lines 193-198: the client handle, the cached accounts,
\* and the removal of the first one when there is one; an exception of
\* remove_account is suppressed.  at_call is the session state in which
\* the token cache is reached.
revoke_account(st, c, cache, remove_fails) ==
    LET st4 == _get_sso_app(st, c)
        accounts == cache
        attempted == accounts /= <<>>
    IN  [st |-> st4,
         calls |-> AppCalls(st) \o <<"get_accounts">>
                   \o (IF attempted THEN <<"remove_account">> ELSE <<>>),
         cache |-> IF attempted /\ ~remove_fails
                   THEN CacheRemove(cache, accounts[1])
                   ELSE cache,
         suppressed |-> attempted /\ remove_fails,
         at_call |-> st]

\* perform_logout as it would be if it revoked before it cleared
perform_logout_revoke_first(st, c, cache, remove_fails) ==
    IF get_config_raises(c)
    THEN [st |-> st, ret |-> Raise("RuntimeError"), calls |-> <<>>,
          cache |-> cache, suppressed |-> FALSE, at_call |-> st]
    ELSE
    LET rv == revoke_account(st, c, cache, remove_fails)
        st3 == clear_local_state(rv.st)
    IN  [st |-> Flush(st3), ret |-> Redirect(LogoutUrl(c)), calls |-> rv.calls,
         cache |-> rv.cache, suppressed |-> rv.suppressed,
         at_call |-> rv.at_call]

\* SsoState.perform_logout; remove_fails says whether remove_account raises
\* (contextlib.suppress absorbs it)
perform_logout(st, c, cache, remove_fails) ==
    IF get_config_raises(c)
    THEN [st |-> st, ret |-> Raise("RuntimeError"), calls |-> <<>>,
          cache |-> cache, suppressed |-> FALSE, at_call |-> st]
    ELSE
    LET st3 == clear_local_state(st)
        rv == revoke_account(st3, c, cache, remove_fails)
    IN  [st |-> Flush(rv.st), ret |-> Redirect(LogoutUrl(c)), calls |-> rv.calls,
         cache |-> rv.cache, suppressed |-> rv.suppressed,
         at_call |-> rv.at_call]

(***************************************************************************)
(* The state machine: the application configures, and a session's requests *)
(* run the handlers one at a time.  last records the handler that ran      *)
(* last: which, for whom, on what request and from what session state, what*)
(* it handed back, the client calls it made, the outcome of its exchange,  *)
(* the flow the client built for it, whether the configuration was         *)
(* complete, whether a failure of remove_account was suppressed, whether  *)
(* the request repeats the query of the callback that has just signed the  *)
(* same session in, the configuration and the token cache it started from, *)
(* the session state in which it reached its first call of the token cache,*)
(* the keywords of a configure_azure_auth call, the latest value passed   *)
(* for every field that was ever passed, the configuration the environment *)
(* gave, and the page of the request when the action records it.           *)
(***************************************************************************)
LastOf(op, s, q, pre, r, exch, flow_details, suppressed, replay) ==
    [ op |-> op, sid |-> s, query |-> q, pre |-> pre, ret |-> r.ret,
      calls |-> r.calls, exch |-> exch, flow_details |-> flow_details,
      configured |-> is_configured(cfg), suppressed |-> suppressed,
      replay |-> replay, cfg |-> cfg, cache |-> token_cache, at_call |-> pre,
      kw |-> EmptyDict, overridden |-> last.overridden,
      env_cfg |-> last.env_cfg, page |-> NoPage ]

Init ==
    /\ cfg \in { AzureAuthConfig(env) : env \in Environments }
    /\ sess = [s \in Sessions |-> NewSsoState]
    /\ token_cache = <<>>
    /\ flows_issued = 0
    /\ last = [ op |-> "init", sid |-> None, query |-> EmptyDict,
                pre |-> NewSsoState, ret |-> RetNone, calls |-> <<>>,
                exch |-> NoExchange, flow_details |-> EmptyDict,
                configured |-> FALSE, suppressed |-> FALSE, replay |-> FALSE,
                cfg |-> cfg, cache |-> <<>>, at_call |-> NewSsoState,
                kw |-> EmptyDict, overridden |-> EmptyDict, env_cfg |-> cfg,
                page |-> NoPage ]

Configure ==
    /\ \E kw \in Overrides : cfg' = configure_azure_auth(cfg, kw)
    /\ UNCHANGED <<sess, token_cache, flows_issued, last>>

RequireAuth(s) ==
    \E page \in Pages :
        LET r == require_auth(sess[s], cfg, page, flows_issued + 1)
            issues == r.flow_details /= EmptyDict
        IN  /\ issues => flows_issued < MaxFlows
            /\ sess' = [sess EXCEPT ![s] = r.st]
            /\ flows_issued' = IF issues THEN flows_issued + 1 ELSE flows_issued
            /\ last' = LastOf("require_auth", s, EmptyDict, sess[s], r,
                              NoExchange, r.flow_details, FALSE, FALSE)
            /\ UNCHANGED <<cfg, token_cache>>

HandleCallback(s) ==
    \E q \in Queries : \E answer \in AnswersFor(sess[s]._flow, q, cfg.scopes) :
        LET r == handle_callback(sess[s], cfg, q, answer, token_cache)
            replay == /\ last.op = "handle_callback"
                      /\ last.sid = s
                      /\ last.exch.why = "tokens"
                      /\ last.query = q
        IN  /\ sess' = [sess EXCEPT ![s] = r.st]
            /\ token_cache' = r.cache
            /\ last' = LastOf("handle_callback", s, q, sess[s], r, r.exch,
                              EmptyDict, FALSE, replay)
            /\ UNCHANGED <<cfg, flows_issued>>

\* the logout as it would be if the fields it clears were those of the
\* class, shared by every session
PerformLogoutOfClass(s) ==
    \E remove_fails \in BOOLEAN :
        LET r == perform_logout(sess[s], cfg, token_cache, remove_fails)
        IN  /\ sess' = [t \in DOMAIN sess |->
                           IF t = s THEN r.st
                           ELSE IF r.ret.kind = "redirect"
                                THEN Flush(clear_local_state(sess[t]))
                                ELSE sess[t]]
            /\ token_cache' = r.cache
            /\ last' = [LastOf("perform_logout", s, EmptyDict, sess[s], r,
                               NoExchange, EmptyDict, r.suppressed, FALSE)
                         EXCEPT !.at_call = r.at_call]
            /\ UNCHANGED <<cfg, flows_issued>>

PerformLogout(s) ==
    \E remove_fails \in BOOLEAN :
        LET r == perform_logout(sess[s], cfg, token_cache, remove_fails)
        IN  /\ sess' = [sess EXCEPT ![s] = r.st]
            /\ token_cache' = r.cache
            /\ last' = [LastOf("perform_logout", s, EmptyDict, sess[s], r,
                               NoExchange, EmptyDict, r.suppressed, FALSE)
                         EXCEPT !.at_call = r.at_call]
            /\ UNCHANGED <<cfg, flows_issued>>

Next ==
    \/ Configure
    \/ \E s \in DOMAIN sess : RequireAuth(s)
    \/ \E s \in DOMAIN sess : HandleCallback(s)
    \/ \E s \in DOMAIN sess : PerformLogout(s)

Spec == Init /\ [][Next]_vars

(***************************************************************************)
(* Several sessions on one process: every session has its own SsoState,    *)
(* and all of them share _config and _token_cache (core.py line 20).  The  *)
(* application is configured from the environment; the sessions sign in on *)
(* one page, come back with the code and the state of a flow, the provider *)
(* answers with the tokens of a principal, and they sign out.              *)
(***************************************************************************)
SharedSessions == {"s1", "s2"}

\* the callbacks the provider redirects a session's browser to
SignInQueries ==
    { [code |-> "c1", state |-> StateToken(k)] : k \in 1..MaxFlows }

\* the provider's answers that sign a principal in
SignInAnswers ==
    { a \in ProviderAnswers :
        a.why = "tokens" /\ AccountOf(a.result) /= None }

\* the answers to the exchange of a callback when the provider, if it is
\* asked, signs a principal in
SignInAnswersFor(auth_code_flow, query_params, scopes) ==
    LET all == AnswersFor(auth_code_flow, query_params, scopes)
    IN  IF all \cap SignInAnswers = {} THEN all ELSE all \cap SignInAnswers

InitShared ==
    /\ cfg = AzureAuthConfig(CHOOSE env \in Environments : env /= EmptyDict)
    /\ sess = [s \in SharedSessions |-> NewSsoState]
    /\ token_cache = <<>>
    /\ flows_issued = 0
    /\ last = [ op |-> "init", sid |-> None, query |-> EmptyDict,
                pre |-> NewSsoState, ret |-> RetNone, calls |-> <<>>,
                exch |-> NoExchange, flow_details |-> EmptyDict,
                configured |-> FALSE, suppressed |-> FALSE, replay |-> FALSE,
                cfg |-> cfg, cache |-> <<>>, at_call |-> NewSsoState,
                kw |-> EmptyDict, overridden |-> EmptyDict, env_cfg |-> cfg,
                page |-> NoPage ]

RequireAuthOnPage(s) ==
    LET page == CHOOSE page \in Pages : page.request_url /= None
        r == require_auth(sess[s], cfg, page, flows_issued + 1)
        issues == r.flow_details /= EmptyDict
    IN  /\ issues => flows_issued < MaxFlows
        /\ sess' = [sess EXCEPT ![s] = r.st]
        /\ flows_issued' = IF issues THEN flows_issued + 1 ELSE flows_issued
        /\ last' = LastOf("require_auth", s, EmptyDict, sess[s], r,
                          NoExchange, r.flow_details, FALSE, FALSE)
        /\ UNCHANGED <<cfg, token_cache>>

HandleSignInCallback(s) ==
    \E q \in SignInQueries :
    \E answer \in SignInAnswersFor(sess[s]._flow, q, cfg.scopes) :
        LET r == handle_callback(sess[s], cfg, q, answer, token_cache)
        IN  /\ sess' = [sess EXCEPT ![s] = r.st]
            /\ token_cache' = r.cache
            /\ last' = LastOf("handle_callback", s, q, sess[s], r, r.exch,
                              EmptyDict, FALSE, FALSE)
            /\ UNCHANGED <<cfg, flows_issued>>

NextShared ==
    \/ \E s \in DOMAIN sess : RequireAuthOnPage(s)
    \/ \E s \in DOMAIN sess : HandleSignInCallback(s)
    \/ \E s \in DOMAIN sess : PerformLogout(s)

SpecShared == InitShared /\ [][NextShared]_vars

(***************************************************************************)
(* One session while the application sets and empties the essentials of    *)
(* the configuration, one keyword at a time.                               *)
(***************************************************************************)
EssentialOverrides ==
    { [client_id |-> ""], [client_id |-> "abc"],
      [client_secret |-> ""], [client_secret |-> "xyz"],
      [tenant_id |-> ""], [tenant_id |-> "contoso"] }

ConfigureEssentials ==
    /\ \E kw \in EssentialOverrides : cfg' = configure_azure_auth(cfg, kw)
    /\ UNCHANGED <<sess, token_cache, flows_issued, last>>

NextEssentials ==
    \/ ConfigureEssentials
    \/ \E s \in DOMAIN sess : RequireAuthOnPage(s)
    \/ \E s \in DOMAIN sess : HandleSignInCallback(s)
    \/ \E s \in DOMAIN sess : PerformLogout(s)

SpecEssentials == Init /\ [][NextEssentials]_vars

(***************************************************************************)
(* One session whose requests come from several pages of the application,  *)
(* the root page among them, while the application sets the essentials and *)
(* moves the callback route.                                               *)
(***************************************************************************)
\* router.page of the requests: the request URL is scheme, host and path
RequestPages ==
    { [request_url |-> "https://app.example/dash", path |-> "/dash",
       scheme |-> "https", host |-> "app.example"],
      [request_url |-> "https://app.example/docs/intro", path |-> "/docs/intro",
       scheme |-> "https", host |-> "app.example"],
      [request_url |-> "https://app.example/", path |-> "/",
       scheme |-> "https", host |-> "app.example"],
      [request_url |-> "http://localhost:3000/", path |-> "/",
       scheme |-> "http", host |-> "localhost:3000"] }

PageOverrides ==
    { [client_id |-> "abc", client_secret |-> "xyz", tenant_id |-> "contoso"],
      [callback_route |-> "/auth/callback"] }

ConfigureForPages ==
    /\ \E kw \in PageOverrides : cfg' = configure_azure_auth(cfg, kw)
    /\ UNCHANGED <<sess, token_cache, flows_issued, last>>

RequireAuthFromPage(s) ==
    \E page \in RequestPages :
        LET r == require_auth(sess[s], cfg, page, flows_issued + 1)
            issues == r.flow_details /= EmptyDict
        IN  /\ issues => flows_issued < MaxFlows
            /\ sess' = [sess EXCEPT ![s] = r.st]
            /\ flows_issued' = IF issues THEN flows_issued + 1 ELSE flows_issued
            /\ last' = [LastOf("require_auth", s, EmptyDict, sess[s], r,
                               NoExchange, r.flow_details, FALSE, FALSE)
                         EXCEPT !.page = page]
            /\ UNCHANGED <<cfg, token_cache>>

NextPages ==
    \/ ConfigureForPages
    \/ \E s \in DOMAIN sess : RequireAuthFromPage(s)
    \/ \E s \in DOMAIN sess : HandleSignInCallback(s)
    \/ \E s \in DOMAIN sess : PerformLogout(s)

SpecPages == Init /\ [][NextPages]_vars

(***************************************************************************)
(* One session while the application goes on configuring after the first   *)
(* flow operations: another client id, secret and tenant, other scopes and *)
(* another callback route.                                                 *)
(***************************************************************************)
LaterOverrides ==
    { [client_id |-> "abc", client_secret |-> "xyz", tenant_id |-> "contoso"],
      [client_id |-> "def", client_secret |-> "uvw", tenant_id |-> "fabrikam"],
      [scopes |-> <<"User.Read">>, callback_route |-> "/auth/callback"] }

ConfigureLater ==
    /\ \E kw \in LaterOverrides : cfg' = configure_azure_auth(cfg, kw)
    /\ UNCHANGED <<sess, token_cache, flows_issued, last>>

NextReconfigure ==
    \/ ConfigureLater
    \/ \E s \in DOMAIN sess : RequireAuthOnPage(s)
    \/ \E s \in DOMAIN sess : HandleSignInCallback(s)
    \/ \E s \in DOMAIN sess : PerformLogout(s)

SpecReconfigure == Init /\ [][NextReconfigure]_vars

(***************************************************************************)
(* The configuration API on its own: the application overrides fields and  *)
(* reads the configuration back.                                           *)
(***************************************************************************)
\* keyword sets for every field, the essentials also with the empty value
FieldOverrides ==
    { [client_id |-> ""], [client_id |-> "abc"],
      [client_secret |-> ""], [client_secret |-> "xyz"],
      [tenant_id |-> ""], [tenant_id |-> "contoso"],
      [scopes |-> <<>>], [scopes |-> <<"User.Read">>],
      [login_redirect_url |-> "/home"],
      [post_logout_redirect_uri |-> "https://app.example/bye"],
      [post_logout_redirect_uri |-> ""],
      [logout_route |-> "/signout"],
      [callback_route |-> "/auth/callback"],
      [client_id |-> "abc", client_secret |-> "xyz", tenant_id |-> "contoso"],
      [scopes |-> <<"User.Read">>, callback_route |-> "/auth/callback"] }

\* the latest value passed for every field passed so far
Overridden(before, kw) ==
    [ f \in DOMAIN before \cup DOMAIN kw |->
        IF f \in DOMAIN kw THEN kw[f] ELSE before[f] ]

ConfigLast(op, ret, kw) ==
    [ last EXCEPT !.op = op, !.ret = ret, !.kw = kw, !.cfg = cfg,
                  !.configured = is_configured(cfg),
                  !.overridden = Overridden(last.overridden, kw) ]

ConfigureAzureAuth ==
    \E kw \in FieldOverrides :
        /\ cfg' = configure_azure_auth(cfg, kw)
        /\ last' = ConfigLast("configure_azure_auth", RetNone, kw)
        /\ UNCHANGED <<sess, token_cache, flows_issued>>

GetConfig ==
    /\ last' = ConfigLast("get_config", get_config(cfg), EmptyDict)
    /\ UNCHANGED <<cfg, sess, token_cache, flows_issued>>

IsConfigured ==
    /\ last' = ConfigLast("is_configured", Return(is_configured(cfg)), EmptyDict)
    /\ UNCHANGED <<cfg, sess, token_cache, flows_issued>>

ReadAuthority ==
    /\ last' = ConfigLast("authority", read_authority(cfg), EmptyDict)
    /\ UNCHANGED <<cfg, sess, token_cache, flows_issued>>

NextConfig == ConfigureAzureAuth \/ GetConfig \/ IsConfigured \/ ReadAuthority

SpecConfig == Init /\ [][NextConfig]_vars

(***************************************************************************)
(* The session states of the flow.                                         *)
(***************************************************************************)
\* no claims and no pending flow
Unauthenticated(st) == st._token_claims = EmptyDict /\ st._flow = EmptyDict

\* a pending flow and no claims
FlowPending(st) == st._token_claims = EmptyDict /\ st._flow /= EmptyDict

\* claims
Authenticated(st) == st._token_claims /= EmptyDict

\* no claims, no access token and no pending flow
SessionCleared(st) ==
    /\ st._token_claims = EmptyDict
    /\ st._access_token = ""
    /\ st._flow = EmptyDict

\* the handler that ran last left claims, access token and pending flow as
\* they were
SessionKept ==
    /\ sess[last.sid]._token_claims = last.pre._token_claims
    /\ sess[last.sid]._access_token = last.pre._access_token
    /\ sess[last.sid]._flow = last.pre._flow

\* the handler that ran last asked the client for the token exchange
ExchangeCalled ==
    \E i \in 1..Len(last.calls) :
        last.calls[i] = "acquire_token_by_auth_code_flow"

(***************************************************************************)
(* The claims.                                                             *)
(***************************************************************************)

\* C1: a handle_callback whose state parameter differs from the state of the
\* session's pending flow ends in the state_mismatch failure and leaves the
\* session without claims, access token and pending flow.  Stated here for
\* the calls that reach the exchange: the configuration is complete and the
\* query parameters carry no error.
C1_StateMismatchResets ==
    ( /\ last.op = "handle_callback"
      /\ last.configured
      /\ "error" \notin DOMAIN last.query
      /\ Get(last.query, "state", None) /= Get(last.pre._flow, "state", None) )
    => ( /\ last.exch.why = "state_mismatch"
         /\ last.ret.kind = "toast"
         /\ SessionCleared(sess[last.sid]) )

\* C2: after a successful handle_callback the pending flow is empty, and a
\* handle_callback that repeats the query parameters of the callback that
\* has just signed the session in fails: it hands back no redirect, its
\* exchange yields no tokens, and claims and access token stay as they were.
C2_NoReplay ==
    /\ ( last.op = "handle_callback" /\ last.exch.why = "tokens" )
       => sess[last.sid]._flow = EmptyDict
    /\ last.replay
       => ( /\ last.ret.kind \in {"toast", "raise"}
            /\ last.exch.why /= "tokens"
            /\ sess[last.sid]._token_claims = last.pre._token_claims
            /\ sess[last.sid]._access_token = last.pre._access_token )

\* a callback was replayed on the session it had signed in, and the client
\* refused it for its state
C2_Witness ==
    /\ last.replay
    /\ last.configured
    /\ last.exch.why = "state_mismatch"
    /\ Authenticated(last.pre)

\* C3: in every state, reading is_authenticated gives true exactly when the
\* claims mapping is non-empty.
C3_AuthenticatedIffClaims ==
    \A s \in DOMAIN sess :
        read_is_authenticated(sess[s]) <=> sess[s]._token_claims /= EmptyDict

\* a callback has signed the session in and is_authenticated reads true
C3_Witness ==
    /\ last.op = "handle_callback"
    /\ last.exch.why = "tokens"
    /\ read_is_authenticated(sess[last.sid])
    /\ ~read_is_authenticated(last.pre)

\* C4: in every state a non-empty access token implies non-empty claims.
C4_TokenImpliesClaims ==
    \A s \in DOMAIN sess :
        sess[s]._access_token /= "" => sess[s]._token_claims /= EmptyDict

\* C5 as claimed: perform_logout always leaves the session with
\* is_authenticated false and claims, access token and pending flow empty.
C5_LogoutAlwaysClears ==
    last.op = "perform_logout"
    => ( /\ ~read_is_authenticated(sess[last.sid])
         /\ SessionCleared(sess[last.sid]) )

\* C5 as amended: perform_logout under a complete configuration leaves the
\* session with is_authenticated false and claims, access token and pending
\* flow empty, and hands back its redirect, also when remove_account fails.
C5_LogoutClears ==
    ( last.op = "perform_logout" /\ last.configured )
    => ( /\ ~read_is_authenticated(sess[last.sid])
         /\ SessionCleared(sess[last.sid])
         /\ last.ret.kind = "redirect" )

\* an authenticated session was logged out while remove_account failed
C5_Witness ==
    /\ last.op = "perform_logout"
    /\ last.configured
    /\ last.suppressed
    /\ Authenticated(last.pre)
    /\ last.pre._access_token /= ""

\* C6: require_auth on a session with claims hands back None, leaves claims,
\* access token and pending flow as they were and calls the client not once.
C6_RequireAuthAuthenticated ==
    ( last.op = "require_auth" /\ Authenticated(last.pre) )
    => ( /\ last.ret = RetNone
         /\ SessionKept
         /\ sess[last.sid]._sso_app_instance = last.pre._sso_app_instance
         /\ last.calls = <<>> )

\* require_auth ran on a session with claims
C6_Witness ==
    /\ last.op = "require_auth"
    /\ Authenticated(last.pre)
    /\ last.configured

\* C7: require_auth on an Unauthenticated session under a complete
\* configuration stores the flow the client built, leaves the claims empty
\* and redirects to the authorization URL that flow carries.
C7_RequireAuthUnauthenticated ==
    ( /\ last.op = "require_auth"
      /\ last.configured
      /\ Unauthenticated(last.pre) )
    => ( /\ last.flow_details /= EmptyDict
         /\ sess[last.sid]._flow = last.flow_details
         /\ FlowPending(sess[last.sid])
         /\ last.ret = Redirect(last.flow_details["auth_uri"]) )

\* require_auth started a flow on an Unauthenticated session
C7_Witness ==
    /\ last.op = "require_auth"
    /\ last.configured
    /\ Unauthenticated(last.pre)
    /\ FlowPending(sess[last.sid])

\* C8: a handle_callback whose query parameters contain error never asks the
\* client for the token exchange.
C8_ErrorSkipsExchange ==
    ( last.op = "handle_callback" /\ "error" \in DOMAIN last.query )
    => ( ~ExchangeCalled /\ last.exch = NoExchange )

\* a callback with error ran whose code and state the pending flow would
\* have accepted
C8_Witness ==
    /\ last.op = "handle_callback"
    /\ last.configured
    /\ "error" \in DOMAIN last.query
    /\ "code" \in DOMAIN last.query
    /\ FlowPending(last.pre)
    /\ Get(last.query, "state", None) = last.pre._flow["state"]

\* C9 as claimed: a handle_callback whose query parameters carry an error
\* leaves claims, access token and pending flow as they were and hands back
\* a notification with the provider's error_description, or with a default.
C9_QueryErrorAlwaysNotifies ==
    ( last.op = "handle_callback" /\ "error" \in DOMAIN last.query )
    => ( /\ SessionKept
         /\ last.ret.kind = "toast"
         /\ Contains(last.ret.text,
                     Get(last.query, "error_description", "Unknown error.")) )

\* C9 as amended: the same, for a handle_callback under a complete
\* configuration.
C9_QueryErrorNotifies ==
    ( /\ last.op = "handle_callback"
      /\ last.configured
      /\ "error" \in DOMAIN last.query )
    => ( /\ SessionKept
         /\ last.ret.kind = "toast"
         /\ Contains(last.ret.text,
                     Get(last.query, "error_description", "Unknown error.")) )

\* the provider reported that the user cancelled, on a pending flow
C9_Witness ==
    /\ last.op = "handle_callback"
    /\ last.configured
    /\ last.query = [error |-> "access_denied",
                     error_description |-> "User cancelled"]
    /\ FlowPending(last.pre)
    /\ last.ret = Toast("Login failed: User cancelled")

\* C10: a handle_callback on a FlowPending session whose token exchange
\* fails (state mismatch, error payload or transport failure) clears the
\* pending flow and leaves the session Unauthenticated.
C10_FailedExchangeClearsFlow ==
    ( /\ last.op = "handle_callback"
      /\ FlowPending(last.pre)
      /\ last.exch.why \in {"state_mismatch", "provider_rejected", "transport"} )
    => Unauthenticated(sess[last.sid])

\* C11: a handle_callback whose token exchange succeeds stores the returned
\* access token and the returned claims, empties the pending flow, leaves
\* the session Authenticated with is_authenticated true, and hands back a
\* redirect to the configured login_redirect_url.
C11_SuccessAuthenticates ==
    ( last.op = "handle_callback" /\ last.exch.why = "tokens" )
    => ( /\ sess[last.sid]._access_token
              = Get(last.exch.result, "access_token", "")
         /\ sess[last.sid]._token_claims
              = Get(last.exch.result, "id_token_claims", EmptyDict)
         /\ sess[last.sid]._flow = EmptyDict
         /\ Authenticated(sess[last.sid])
         /\ read_is_authenticated(sess[last.sid])
         /\ last.ret = Redirect(last.cfg.login_redirect_url) )

\* the account of the token cache that belongs to a session: the one its
\* claims name
SessionAccount(st) == Get(st._token_claims, "preferred_username", None)

\* C12: with several sessions on the shared token cache, a perform_logout
\* removes from the cache only the account of the session that logs out,
\* and never the account of another session that is still authenticated.
C12_LogoutRemovesOwnAccount ==
    last.op = "perform_logout"
    => ( /\ \A a \in Elements(last.cache) \ Elements(token_cache) :
                a = SessionAccount(last.pre)
         /\ \A s \in DOMAIN sess \ {last.sid} :
                ( /\ Authenticated(sess[s])
                  /\ SessionAccount(sess[s]) /= SessionAccount(last.pre)
                  /\ SessionAccount(sess[s]) \in Elements(last.cache) )
                => SessionAccount(sess[s]) \in Elements(token_cache) )

\* C13: when the client id, the client secret or the tenant id is empty, a
\* require_auth on a session that is not authenticated, a handle_callback
\* and a perform_logout fail with the configuration error and have changed
\* no field of the session, called nothing on the identity-provider client
\* and left the token cache alone.
C13_IncompleteConfigFailsFirst ==
    ( /\ last.op \in {"require_auth", "handle_callback", "perform_logout"}
      /\ \/ last.cfg.client_id = ""
         \/ last.cfg.client_secret = ""
         \/ last.cfg.tenant_id = ""
      /\ last.op = "require_auth" => ~read_is_authenticated(last.pre) )
    => ( /\ last.ret = Raise("RuntimeError")
         /\ sess[last.sid] = last.pre
         /\ last.calls = <<>>
         /\ last.exch = NoExchange
         /\ token_cache = last.cache )

\* a signed-in session whose tenant id alone was emptied afterwards asked to
\* log out, with its account in the token cache
C13_Witness ==
    /\ last.op = "perform_logout"
    /\ last.cfg.client_id /= ""
    /\ last.cfg.client_secret /= ""
    /\ last.cfg.tenant_id = ""
    /\ Authenticated(last.pre)
    /\ last.cache /= <<>>
    /\ last.ret = Raise("RuntimeError")

\* C14: is_configured() is true exactly when client id, client secret and
\* tenant id are all non-empty; get_config() hands back the configuration
\* when they are, and fails with the configuration error when they are not,
\* leaving the configuration as it was; this after any configure_azure_auth
\* calls.
C14_GetConfigIffConfigured ==
    LET essentials == /\ last.cfg.client_id /= ""
                      /\ last.cfg.client_secret /= ""
                      /\ last.cfg.tenant_id /= ""
    IN  /\ last.op = "is_configured" => last.ret = Return(essentials)
        /\ last.op = "get_config" =>
              /\ essentials => last.ret = Return(last.cfg)
              /\ ~essentials => last.ret = Raise("RuntimeError")
              /\ cfg = last.cfg

\* get_config() failed on a configuration whose tenant id alone an override
\* had emptied
C14_Witness ==
    /\ last.op = "get_config"
    /\ last.cfg.client_id /= ""
    /\ last.cfg.client_secret /= ""
    /\ last.cfg.tenant_id = ""
    /\ "tenant_id" \in DOMAIN last.overridden
    /\ last.ret = Raise("RuntimeError")

\* C15: configure_azure_auth sets every field passed with a value that is
\* not None to that value and leaves every other field as it was; after
\* any sequence of calls every field holds the value passed for it most
\* recently, or the value from the environment or the default when it was
\* never passed.
C15_ConfigureOverrides ==
    /\ last.op = "configure_azure_auth" =>
          \A f \in ConfigFields :
              /\ f \in DOMAIN last.kw => cfg[f] = last.kw[f]
              /\ f \notin DOMAIN last.kw => cfg[f] = last.cfg[f]
    /\ \A f \in ConfigFields :
          /\ f \in DOMAIN last.overridden => cfg[f] = last.overridden[f]
          /\ f \notin DOMAIN last.overridden => cfg[f] = last.env_cfg[f]

\* the client id from the environment was overridden with the empty
\* string, after the scopes and the callback route had been overridden and
\* with the tenant id still from the environment
C15_Witness ==
    /\ last.op = "configure_azure_auth"
    /\ last.kw = [client_id |-> ""]
    /\ last.cfg.client_id = "abc"
    /\ cfg.client_id = ""
    /\ {"scopes", "callback_route"} \subseteq DOMAIN last.overridden
    /\ "tenant_id" \notin DOMAIN last.overridden
    /\ cfg.tenant_id = "contoso"

\* C16: authority is 'https://login.microsoftonline.com/' followed by the
\* tenant id when the tenant id is not empty ('contoso' gives
\* 'https://login.microsoftonline.com/contoso'), and fails with an error
\* when it is empty.
C16_AuthorityOfTenant ==
    last.op = "authority" =>
        /\ last.cfg.tenant_id = "contoso" =>
              last.ret = Return("https://login.microsoftonline.com/contoso")
        /\ last.cfg.tenant_id /= "" =>
              last.ret = Return("https://login.microsoftonline.com/"
                                \o last.cfg.tenant_id)
        /\ last.cfg.tenant_id = "" => last.ret.kind = "raise"

\* authority failed on a configuration whose client id and secret are set
\* and whose tenant id an override had emptied
C16_Witness ==
    /\ last.op = "authority"
    /\ last.cfg.client_id /= ""
    /\ last.cfg.tenant_id = ""
    /\ "tenant_id" \in DOMAIN last.overridden
    /\ last.ret = Raise("ValueError")

\* the logout redirect a configuration asks for: the tenant's logout
\* endpoint, with the post-logout URI as its query when one is configured
ExpectedLogoutRedirect(c) ==
    Redirect("https://login.microsoftonline.com/" \o c.tenant_id
             \o "/oauth2/v2.0/logout"
             \o ( IF c.post_logout_redirect_uri \in {None, ""} THEN ""
                  ELSE "?post_logout_redirect_uri="
                       \o c.post_logout_redirect_uri ))

\* C17 as claimed: perform_logout always hands back a redirect to
\* '<authority>/oauth2/v2.0/logout', ending with
\* '?post_logout_redirect_uri=<uri>' exactly when a post-logout URI is
\* configured, whatever the session state and the outcome of the revocation.
C17_LogoutAlwaysRedirects ==
    last.op = "perform_logout" => last.ret = ExpectedLogoutRedirect(last.cfg)

\* C17 as amended: the same, for a perform_logout under a complete
\* configuration.
C17_LogoutRedirects ==
    ( last.op = "perform_logout" /\ last.configured )
    => ( /\ last.ret = ExpectedLogoutRedirect(last.cfg)
         /\ EndsWith(last.ret.text, "/oauth2/v2.0/logout")
              <=> last.cfg.post_logout_redirect_uri \in {None, ""} )

\* a signed-in session logged out with a post-logout URI configured, and
\* the removal of its account failed
C17_Witness ==
    /\ last.op = "perform_logout"
    /\ last.configured
    /\ Authenticated(last.pre)
    /\ last.suppressed
    /\ last.ret = Redirect("https://login.microsoftonline.com/contoso/oauth2/v2.0/logout?post_logout_redirect_uri=https://app.example/bye")

\* C18: in perform_logout the claims, the access token and the pending flow
\* are cleared before any call that reaches the token cache; removal of an
\* account is attempted only when the account list is not empty; and a
\* removal that fails is ignored: the redirect is handed back all the same.
C18_ClearBeforeRevoke ==
    last.op = "perform_logout"
    => ( /\ "get_accounts" \in Elements(last.calls)
              => SessionCleared(last.at_call)
         /\ "remove_account" \in Elements(last.calls)
              => ( /\ SessionCleared(last.at_call)
                   /\ "get_accounts" \in Elements(last.calls)
                   /\ last.cache /= <<>> )
         /\ last.suppressed
              => ( /\ last.ret.kind = "redirect"
                   /\ SessionCleared(sess[last.sid])
                   /\ token_cache = last.cache ) )

\* a signed-in session logged out, its account was in the token cache and
\* its removal failed
C18_Witness ==
    /\ last.op = "perform_logout"
    /\ Authenticated(last.pre)
    /\ last.pre._access_token /= ""
    /\ "remove_account" \in Elements(last.calls)
    /\ last.suppressed
    /\ last.ret.kind = "redirect"

\* C19: a session holds one pending flow at most: a require_auth on a
\* session with a pending flow that builds a new flow (as it does under a
\* complete configuration) stores the new one in place of the old one, and
\* otherwise leaves the old one; and a handle_callback whose state is not
\* that of the stored flow, such as the state of an abandoned flow, does
\* not obtain tokens and does not authenticate the session.
C19_NewFlowReplacesPending ==
    /\ ( last.op = "require_auth" /\ FlowPending(last.pre) )
       => ( /\ last.configured => last.flow_details /= EmptyDict
            /\ last.flow_details /= EmptyDict
                 => ( /\ sess[last.sid]._flow = last.flow_details
                      /\ last.flow_details["state"] /= last.pre._flow["state"] )
            /\ last.flow_details = EmptyDict
                 => sess[last.sid]._flow = last.pre._flow )
    /\ ( /\ last.op = "handle_callback"
         /\ FlowPending(last.pre)
         /\ Get(last.query, "state", None) /= last.pre._flow["state"] )
       => ( /\ last.exch.why /= "tokens"
            /\ last.ret.kind /= "redirect"
            /\ ~Authenticated(sess[last.sid])
            /\ sess[last.sid]._access_token = last.pre._access_token )

\* require_auth ran on a session whose flow st1 was pending, and the
\* session now holds the flow st2
C19_Witness ==
    /\ last.op = "require_auth"
    /\ FlowPending(last.pre)
    /\ last.pre._flow["state"] = StateToken(1)
    /\ FlowPending(sess[last.sid])
    /\ sess[last.sid]._flow["state"] = StateToken(2)

\* how often a handler called an operation of the client
CallCount(calls, name) == Cardinality({ i \in 1..Len(calls) : calls[i] = name })

\* C20: handle_callback asks the client for the token exchange once at most
\* in a call and never again after a failure; and an exchange that fails
\* in transport (an exception other than ValueError) ends in a failure
\* notification like the other exchange errors, not in a raised exception.
C20_TransportFailureNotifies ==
    last.op = "handle_callback"
    => ( /\ CallCount(last.calls, "acquire_token_by_auth_code_flow") <= 1
         /\ last.exch.why = "transport"
              => ( last.ret.kind = "toast" /\ last.ret.kind /= "raise" ) )

\* C21: after any sequence of flow operations every read of a derived
\* projection gives what the session's fields hold now: is_authenticated
\* is (claims not empty), token_claims and access_token are the stored
\* values, and user_name, user_email and user_roles are the claims 'name',
\* 'preferred_username' and 'roles', or "", "" and [] without them.
C21_ProjectionsCurrent ==
    \A s \in DOMAIN sess :
        LET st == sess[s]
            claims == st._token_claims
        IN  /\ read_is_authenticated(st) = (claims /= EmptyDict)
            /\ read_token_claims(st) = claims
            /\ read_access_token(st) = st._access_token
            /\ user_name(st) = IF "name" \in DOMAIN claims
                               THEN claims["name"] ELSE ""
            /\ user_email(st) = IF "preferred_username" \in DOMAIN claims
                                THEN claims["preferred_username"] ELSE ""
            /\ user_roles(st) = IF "roles" \in DOMAIN claims
                                THEN claims["roles"] ELSE <<>>

\* a session signed in as Ada has logged out and been signed in as Bob,
\* whose claims carry neither name nor roles
C21_Witness ==
    /\ last.op = "handle_callback"
    /\ last.exch.why = "tokens"
    /\ "ada@app.example" \in Elements(last.cache)
    /\ sess[last.sid]._token_claims = [preferred_username |-> "bob@app.example"]
    /\ read_is_authenticated(sess[last.sid])
    /\ user_name(sess[last.sid]) = ""
    /\ user_email(sess[last.sid]) = "bob@app.example"

\* C22: the callback URL of a login initiation is the base URL of the
\* request followed by the configured callback route, for every page path,
\* the root path '/' among them: scheme and host of the request URL are
\* kept as they are and one separator joins the base and the callback path.
C22_CallbackUrlKeepsOrigin ==
    ( /\ last.op = "require_auth"
      /\ last.flow_details /= EmptyDict
      /\ last.page /= NoPage )
    => last.flow_details["redirect_uri"]
         = last.page.scheme \o "://" \o last.page.host
           \o last.cfg.callback_route

\* C23: a session's client handle is built once at most, on first use, and
\* every later use gets the same handle, so that a configure_azure_auth
\* that changes client id, secret or tenant after the first flow operation
\* does not show in the handle later operations use; the scopes, the
\* callback route and the logout URL are those of the configuration at the
\* time of each operation.
C23_HandleBuiltOnce ==
    last.op \in {"require_auth", "handle_callback", "perform_logout"}
    => LET app == last.pre._sso_app_instance
           built == CallCount(last.calls, "ConfidentialClientApplication")
       IN  /\ built <= 1
           /\ app /= NoApp
                => ( /\ built = 0
                     /\ sess[last.sid]._sso_app_instance = app )
           /\ ( last.op = "require_auth" /\ last.flow_details /= EmptyDict )
                => ( /\ last.flow_details["scope"] = last.cfg.scopes
                     /\ EndsWith(last.flow_details["redirect_uri"],
                                 last.cfg.callback_route)
                     /\ app /= NoApp
                          => OccursAt(last.flow_details["auth_uri"],
                                      app.authority
                                      \o "/oauth2/v2.0/authorize?client_id="
                                      \o app.client_id \o "&", 1) )
           /\ ( last.op = "perform_logout" /\ last.ret.kind = "redirect" )
                => last.ret = ExpectedLogoutRedirect(last.cfg)

\* a login was initiated with the handle built for the tenant contoso after
\* the tenant had been changed to fabrikam and the scopes to User.Read
C23_Witness ==
    /\ last.op = "require_auth"
    /\ last.pre._sso_app_instance /= NoApp
    /\ last.pre._sso_app_instance.authority
         = "https://login.microsoftonline.com/contoso"
    /\ last.cfg.tenant_id = "fabrikam"
    /\ last.cfg.scopes = <<"User.Read">>
    /\ last.flow_details /= EmptyDict
    /\ last.flow_details["scope"] = <<"User.Read">>
    /\ Contains(last.flow_details["auth_uri"], "contoso")

\* C24: a session becomes Authenticated only by a handle_callback whose
\* token exchange succeeded against the pending flow a require_auth of the
\* same session stored: claims appear only in such a handle_callback, with
\* a pending flow whose state the callback carries; a flow comes to be
\* pending only by require_auth, and a successful handle_callback and a
\* perform_logout that hands back its redirect leave none pending; and a
\* handle_callback on a session without a pending flow obtains no tokens.
C24_AuthenticatedOnlyByCallback ==
    last.op /= "init"
    => LET pre == last.pre
           post == sess[last.sid]
       IN  /\ ( Authenticated(post) /\ post._token_claims /= pre._token_claims )
                => ( /\ last.op = "handle_callback"
                     /\ last.exch.why = "tokens"
                     /\ pre._flow /= EmptyDict
                     /\ Get(last.query, "state", None) = pre._flow["state"] )
           /\ ( post._flow /= EmptyDict /\ post._flow /= pre._flow )
                => ( last.op = "require_auth" /\ post._flow = last.flow_details )
           /\ ( \/ last.op = "handle_callback" /\ last.exch.why = "tokens"
                \/ last.op = "perform_logout" /\ last.ret.kind = "redirect" )
                => post._flow = EmptyDict
           /\ ( last.op = "handle_callback" /\ pre._flow = EmptyDict )
                => ( /\ last.exch.why /= "tokens"
                     /\ post._token_claims = pre._token_claims )

\* a session that had logged out and initiated a login anew was signed in
\* by the callback of that flow
C24_Witness ==
    /\ last.op = "handle_callback"
    /\ last.exch.why = "tokens"
    /\ last.cache /= <<>>
    /\ FlowPending(last.pre)
    /\ last.pre._flow["state"] = StateToken(2)
    /\ Authenticated(sess[last.sid])

\* C25: in every reachable state the states of a session exclude each
\* other: a session with claims has no pending flow, whatever the sequence
\* of require_auth, handle_callback and perform_logout.
C25_StatesExclusive ==
    \A s \in DOMAIN sess :
        /\ Authenticated(sess[s]) => sess[s]._flow = EmptyDict
        /\ Cardinality({ n \in {1, 2, 3} :
                            \/ n = 1 /\ Unauthenticated(sess[s])
                            \/ n = 2 /\ FlowPending(sess[s])
                            \/ n = 3 /\ Authenticated(sess[s]) }) = 1

\* require_auth ran on a signed-in session, which has claims and no flow
C25_Witness ==
    /\ last.op = "require_auth"
    /\ last.configured
    /\ Authenticated(last.pre)
    /\ Authenticated(sess[last.sid])
    /\ sess[last.sid]._flow = EmptyDict
    /\ flows_issued < MaxFlows

\* C26: sessions are isolated: a require_auth, handle_callback or
\* perform_logout of one session never changes the claims, the access token
\* or the pending flow of another session, however the operations of the
\* sessions interleave; beyond its own session it changes at most the
\* shared token cache, and never the configuration.
C26_SessionsIsolated ==
    [][ /\ \A s \in DOMAIN sess :
              ( \/ sess'[s]._token_claims /= sess[s]._token_claims
                \/ sess'[s]._access_token /= sess[s]._access_token
                \/ sess'[s]._flow /= sess[s]._flow )
              => ( /\ last'.sid = s
                   /\ last'.op \in {"require_auth", "handle_callback",
                                    "perform_logout"} )
        /\ last' /= last => cfg' = cfg ]_vars

\* the second session logged out while the first was signed in: the first
\* keeps its claims and its token, and its account has left the token cache
C26_Witness ==
    /\ last.op = "perform_logout"
    /\ last.sid = "s2"
    /\ last.ret.kind = "redirect"
    /\ Authenticated(sess["s1"])
    /\ sess["s1"]._access_token /= ""
    /\ SessionAccount(sess["s1"]) \in Elements(last.cache)
    /\ SessionAccount(sess["s1"]) \notin Elements(token_cache)

=============================================================================
